---- MODULE Spec2Model ----
(***************************************************************************)
(* Resumable chunked upload coordinator (src/server.js, src/main.go).      *)
(*                                                                         *)
(* The two servers implement the same HTTP surface over a MinIO bucket.    *)
(* impl selects which one runs.  A handler is cut into one action per      *)
(* stretch of code between two blocking blob-store calls (an await in      *)
(* server.js, a blocking client call or a separate lock section in         *)
(* main.go); requests in different slots interleave at those points.       *)
(*                                                                         *)
(* Keys and file names are sequences of string tokens, so that the string  *)
(* templates that build object names and part keys are concatenations      *)
(* that can collide.  Request bodies are well formed: the presence checks  *)
(* on uploadId / chunkIndex / chunk belong to the request parsing layer.   *)
(***************************************************************************)
EXTENDS Integers, Sequences, FiniteSets, TLC

\* ---------------------------------------------------------------- bounds
MaxUploads == 2
MaxReq == 2
MaxClock == 1
MaxChunkIndex == 1
\* the largest int64 (math.MaxInt64), scaled down: main.go computes in this width
MaxInt64 == 7

\* ---------------------------------------------------------------- inputs
Impls == {"node", "go"}
UploadIds == 1..MaxUploads
ChunkIndexes == 0..MaxChunkIndex
FileNames == {<<"a">>, <<"a", ".part", "0">>}
FileSizes == {-1, 0, 1, 3}
ChunkSizes == {0, 2}

\* the file a client uploads: fileSize bytes, byte k of it is k
File(fileSize) == [k \in 1..fileSize |-> k]

Min(a, b) == IF a < b THEN a ELSE b

\* the slice of the file that a client sends as chunk idx
Slice(file, chunkSize, idx) ==
  SubSeq(file, idx * chunkSize + 1, Min(Len(file), (idx + 1) * chunkSize))
\* the bytes of a file uploaded in one request
SingleBytes == <<0>>

Digits == <<"0", "1", "2", "3", "4", "5", "6", "7", "8", "9">>
DigitTokens == {Digits[k] : k \in 1..Len(Digits)}

\* decimal rendering of a small non-negative integer (template ${i}, %d)
Itoa(n) == Digits[n + 1]

VARIABLES
  world,             \* the clients of this run: how many sessions they open, how
                     \* many requests they keep in flight, the file names they use
  impl,              \* which server runs
  now,               \* Date.now() / time.Now().Unix()
  nextId,            \* uuid source: the next fresh uploadId
  heap,              \* uploadId -> the session object (lives while referenced)
  multipartUploads,  \* the registry: the uploadIds mapped to their object
  store,             \* the bucket: key -> bytes
  reqs,              \* slot -> the request running in it
  out,               \* the response sent last
  dead               \* uploadIds whose complete succeeded or cancel returned

vars == <<world, impl, now, nextId, heap, multipartUploads, store, reqs, out, dead>>

\* ------------------------------------------------------- pure functions
\* `${Date.now()}_${fileName}` / Sprintf("%d_%s", Unix(), FileName)
ObjectName(ts, fileName) == <<Itoa(ts), "_">> \o fileName

\* `${objectName}.part${i}` / Sprintf("%s.part%d", ObjectName, i)
PartKey(objectName, i) == objectName \o <<".part", Itoa(i)>>

\* Math.ceil(fileSize / chunkSize), chunkSize # 0
CeilDiv(a, b) == IF b > 0 THEN -((-a) \div b) ELSE -(a \div (-b))

Abs(a) == IF a < 0 THEN -a ELSE a

\* int64 arithmetic wraps around
Wrap(n) == ((n + MaxInt64 + 1) % (2 * (MaxInt64 + 1))) - (MaxInt64 + 1)

\* Go integer division: truncates toward zero
TruncDiv(a, b) ==
  IF (a < 0) = (b < 0) THEN Abs(a) \div Abs(b) ELSE -(Abs(a) \div Abs(b))

TotalChunks(fileSize, chunkSize) ==
  IF impl = "node" THEN CeilDiv(fileSize, chunkSize)
  ELSE TruncDiv(Wrap(fileSize + chunkSize - 1), chunkSize)

\* bytes.Join(chunks, []byte{}) / Buffer.concat(chunks)
RECURSIVE Concat(_)
Concat(chunks) ==
  IF chunks = <<>> THEN <<>> ELSE Head(chunks) \o Concat(Tail(chunks))

\* the part-key pattern *.part<digits>
IsPartKey(key) ==
  /\ Len(key) >= 2
  /\ key[Len(key) - 1] = ".part"
  /\ key[Len(key)] \in DigitTokens

\* strings.Contains(object.Key, ".part")
ContainsPart(key) == \E k \in 1..Len(key) : key[k] = ".part"

\* ------------------------------------------------------------ blob store
Exists(key) == key \in DOMAIN store
PutObject(key, bytes) == (key :> bytes) @@ store
RemoveObject(key) == [k \in DOMAIN store \ {key} |-> store[k]]

\* ------------------------------------------------------------- requests
Idle ==
  [kind |-> "idle", pc |-> "idle", uploadId |-> 0, chunkIndex |-> 0,
   data |-> <<>>, i |-> 0, chunks |-> <<>>,
   late |-> FALSE, allIn |-> FALSE, short |-> FALSE, quiet |-> FALSE,
   wrote |-> FALSE, clean |-> FALSE]

NoOut ==
  [op |-> "none", uploadId |-> 0, status |-> 0, err |-> "",
   uploaded |-> 0, total |-> 0, chunkIndex |-> 0, files |-> {},
   objectName |-> <<>>, fileName |-> <<>>,
   late |-> FALSE, allIn |-> FALSE, short |-> FALSE, quiet |-> FALSE,
   wrote |-> FALSE, again |-> FALSE, clean |-> FALSE]

Resp(op, u, status, err) ==
  [NoOut EXCEPT !.op = op, !.uploadId = u, !.status = status, !.err = err]

\* res.json / c.JSON of a request that ran in slot r
RespOf(r, status, err) ==
  [Resp(reqs[r].kind, reqs[r].uploadId, status, err) EXCEPT
     !.late = reqs[r].late, !.allIn = reqs[r].allIn, !.short = reqs[r].short,
     !.quiet = reqs[r].quiet, !.wrote = reqs[r].wrote,
     !.clean = reqs[r].clean, !.chunkIndex = reqs[r].chunkIndex]

Slots == DOMAIN reqs

\* the bytes of chunk idx that the client of session u uploads
FileChunk(u, idx) == Slice(File(heap[u].fileSize), heap[u].chunkSize, idx)

Info(r) == heap[reqs[r].uploadId]

\* another request that holds session u gets in the way of the ones running
Busy(u) == \E q \in Slots : reqs[q].kind # "idle" /\ reqs[q].uploadId = u

Disturbed(u) ==
  [q \in Slots |->
     IF reqs[q].uploadId = u THEN [reqs[q] EXCEPT !.quiet = FALSE] ELSE reqs[q]]

\* 0..totalChunks-1 have all been recorded, for a session with chunks
AllIn(u) ==
  /\ heap[u].totalChunks >= 1
  /\ (0..(heap[u].totalChunks - 1)) \subseteq heap[u].uploadedChunks

\* a request is handled in the first free slot
Free(r) == reqs[r] = Idle /\ \A q \in Slots : q < r => reqs[q] # Idle

\* one session, requests in flight together
Concurrent ==
  [uploads |-> 1, slots |-> MaxReq, names |-> {<<"a">>},
   fileSizes |-> FileSizes, chunkSizes |-> ChunkSizes]

\* several sessions and every file name, one request at a time
Sequential ==
  [uploads |-> MaxUploads, slots |-> 1, names |-> FileNames,
   fileSizes |-> {0, 1}, chunkSizes |-> {2}]

\* one session and single-shot uploads under every file name
Solo ==
  [uploads |-> 1, slots |-> 1, names |-> FileNames,
   fileSizes |-> {0, 1, 3}, chunkSizes |-> {2}]

\* the same file uploaded twice, in one chunk and in two
Twice ==
  [uploads |-> MaxUploads, slots |-> 1, names |-> {<<"a">>},
   fileSizes |-> {3}, chunkSizes |-> {2, 3}]

\* one session of every declared size, one request at a time
Sized ==
  [uploads |-> 1, slots |-> 1, names |-> {<<"a">>},
   fileSizes |-> 0..MaxInt64, chunkSizes |-> {2, 3}]

Start(w) ==
  /\ world = w
  /\ impl \in Impls
  /\ now = 0
  /\ nextId = 1
  /\ heap = <<>>
  /\ multipartUploads = {}
  /\ store = <<>>
  /\ reqs = [r \in 1..w.slots |-> Idle]
  /\ out = NoOut
  /\ dead = {}

Init == Start(Concurrent)

InitAll == Start(Solo)

InitTwice == Start(Twice)

InitSized == Start(Sized)

\* the clock advances
Tick ==
  /\ now < MaxClock
  /\ now' = now + 1
  /\ out' = NoOut
  /\ UNCHANGED <<world, impl, nextId, heap, multipartUploads, store, reqs, dead>>

\* POST /api/upload/init
InitMultipartUpload ==
  \E fileName \in world.names \cup {<<>>}, fileSize \in world.fileSizes,
     chunkSize \in world.chunkSizes :
    /\ IF fileName = <<>> \/ fileSize = 0 \/ chunkSize = 0
       THEN /\ out' = Resp("init", 0, 400, "validation")
            /\ UNCHANGED <<nextId, heap, multipartUploads>>
       ELSE LET total == TotalChunks(fileSize, chunkSize)
                objectName == ObjectName(now, fileName)
            IN /\ nextId <= world.uploads
               /\ heap' = Append(heap,
                    [fileName |-> fileName, objectName |-> objectName,
                     fileSize |-> fileSize, chunkSize |-> chunkSize,
                     totalChunks |-> total, uploadedChunks |-> {}])
               /\ multipartUploads' = multipartUploads \cup {nextId}
               /\ nextId' = nextId + 1
               /\ out' = [Resp("init", nextId, 200, "") EXCEPT
                            !.total = total, !.objectName = objectName]
    /\ UNCHANGED <<world, impl, now, store, reqs, dead>>

\* a request enters slot r holding session u
Enter(r, req) == [Disturbed(req.uploadId) EXCEPT ![r] = req]

NewReq(kind, pc, u) ==
  [Idle EXCEPT !.kind = kind, !.pc = pc, !.uploadId = u,
               !.late = u \in dead, !.quiet = ~Busy(u), !.clean = TRUE]

NotFound(op, u) == [Resp(op, u, 404, "notfound") EXCEPT !.late = u \in dead]

\* ------------------------------------------------- POST /api/upload/chunk
\* a lookup that still finds a session after it was retired
KnownOrRetired(u) == u \in multipartUploads \/ u \in dead

\* multipartUploads.get(uploadId) / multipartUploads[uploadID] found it
Known(u) == u \in multipartUploads

\* session lookup
ChunkLookup(r) ==
  \E u \in UploadIds, idx \in ChunkIndexes :
    /\ Free(r)
    /\ IF ~Known(u)
       THEN /\ out' = NotFound("chunk", u)
            /\ UNCHANGED reqs
       ELSE /\ reqs' = Enter(r, [NewReq("chunk", "put", u) EXCEPT
                                   !.chunkIndex = idx, !.data = FileChunk(u, idx)])
            /\ out' = NoOut
    /\ UNCHANGED <<world, impl, now, nextId, heap, multipartUploads, store, dead>>

\* a failed write that records the index all the same
AfterPutFailureRecords(uploadedChunks, chunkIndex) ==
  uploadedChunks \cup {chunkIndex}

\* a failed write that takes the index out of the record
AfterPutFailureForgets(uploadedChunks, chunkIndex) ==
  uploadedChunks \ {chunkIndex}

\* a failed write of a part only answers 500: the index is not recorded
AfterPutFailure(uploadedChunks, chunkIndex) == uploadedChunks

\* putObject of the part
ChunkPut(r) ==
  /\ reqs[r].kind = "chunk" /\ reqs[r].pc = "put"
  /\ \E ok \in BOOLEAN :
       IF ok
       THEN /\ store' = PutObject(PartKey(Info(r).objectName, reqs[r].chunkIndex),
                                  reqs[r].data)
            /\ reqs' = [reqs EXCEPT ![r].pc = "add", ![r].wrote = TRUE]
            /\ out' = NoOut
            /\ UNCHANGED heap
       ELSE /\ out' = RespOf(r, 500, "put")
            /\ reqs' = [reqs EXCEPT ![r] = Idle]
            /\ heap' = [heap EXCEPT ![reqs[r].uploadId].uploadedChunks =
                          AfterPutFailure(@, reqs[r].chunkIndex)]
            /\ UNCHANGED store
  /\ UNCHANGED <<world, impl, now, nextId, multipartUploads, dead>>

\* a list of receipts instead of a set: a repeated index is counted again
RecordEach(uploadedChunks, chunkIndex) ==
  IF chunkIndex \in uploadedChunks
  THEN uploadedChunks \cup {chunkIndex + 10 * Cardinality(uploadedChunks)}
  ELSE uploadedChunks \cup {chunkIndex}

\* a record that overwrites what other requests recorded
RecordAlone(uploadedChunks, chunkIndex) == {chunkIndex}

\* uploadedChunks.add(chunkIndexNum) / UploadedChunks[chunkIndex] = true
Record(uploadedChunks, chunkIndex) == uploadedChunks \cup {chunkIndex}

\* record the index, answer with the counts
ChunkAdd(r) ==
  LET u == reqs[r].uploadId
      added == Record(heap[u].uploadedChunks, reqs[r].chunkIndex)
  IN /\ reqs[r].kind = "chunk" /\ reqs[r].pc = "add"
     /\ heap' = [heap EXCEPT
                   ![u].uploadedChunks = added]
     /\ out' = [RespOf(r, 200, "") EXCEPT
                  !.uploaded = Cardinality(added),
                  !.total = heap[u].totalChunks,
                  !.again = reqs[r].chunkIndex \in heap[u].uploadedChunks]
     /\ reqs' = [reqs EXCEPT ![r] = Idle]
     /\ UNCHANGED <<world, impl, now, nextId, multipartUploads, store, dead>>

\* ---------------------------------------------- POST /api/upload/complete
\* a check that only rejects a count above the total
IncompleteOver(count, total) == count > total

\* uploadedChunks.size !== totalChunks / uploadedCount != totalChunks
Incomplete(count, total) == count # total

\* a failed merge that also drops the session
AfterFailureDrops(uploadId) == multipartUploads \ {uploadId}

\* a failed merge only answers 500: the registry is as it was
AfterFailure(uploadId) == multipartUploads

\* the completeness check and the choice of the merge path
CompleteChecked(r, req, others) ==
  LET info == heap[req.uploadId]
      count == Cardinality(info.uploadedChunks)
      checked == [req EXCEPT !.allIn = AllIn(req.uploadId),
                             !.short = count < info.totalChunks]
      answer(status, err) ==
        [Resp("complete", req.uploadId, status, err) EXCEPT
           !.late = checked.late, !.allIn = checked.allIn,
           !.short = checked.short, !.quiet = checked.quiet,
           !.uploaded = count, !.total = info.totalChunks]
  IN IF Incomplete(count, info.totalChunks)
     THEN /\ out' = answer(400, "conflict")
          /\ reqs' = [reqs EXCEPT ![r] = Idle]
     ELSE IF info.totalChunks > 1
     THEN /\ reqs' = [others EXCEPT ![r] = [checked EXCEPT !.pc = "get"]]
          /\ out' = NoOut
     ELSE IF impl = "node" /\ info.totalChunks < 1
     THEN \* chunkObjects is empty: chunkObjects[0].name throws
          /\ out' = answer(500, "typeerror")
          /\ reqs' = [reqs EXCEPT ![r] = Idle]
     ELSE /\ reqs' = [others EXCEPT ![r] = [checked EXCEPT !.pc = "copy"]]
          /\ out' = NoOut

\* session lookup; server.js runs the check in the same turn
CompleteLookup(r) ==
  \E u \in UploadIds :
    /\ Free(r)
    /\ IF u \notin multipartUploads
       THEN /\ out' = NotFound("complete", u)
            /\ UNCHANGED reqs
       ELSE IF impl = "node"
       THEN CompleteChecked(r, NewReq("complete", "check", u), Disturbed(u))
       ELSE /\ reqs' = Enter(r, NewReq("complete", "check", u))
            /\ out' = NoOut
    /\ UNCHANGED <<world, impl, now, nextId, heap, multipartUploads, store, dead>>

\* main.go reads the count under the session lock, after the registry lock
CompleteCheck(r) ==
  /\ reqs[r].kind = "complete" /\ reqs[r].pc = "check"
  /\ CompleteChecked(r, reqs[r], reqs)
  /\ UNCHANGED <<world, impl, now, nextId, heap, multipartUploads, store, dead>>

\* read part i into the buffer
CompleteGet(r) ==
  LET key == PartKey(Info(r).objectName, reqs[r].i)
  IN /\ reqs[r].kind = "complete" /\ reqs[r].pc = "get"
     /\ \E ok \in BOOLEAN :
          IF ok /\ Exists(key)
          THEN /\ reqs' = [reqs EXCEPT
                   ![r].chunks = Append(@, store[key]),
                   ![r].i = @ + 1,
                   ![r].pc = IF reqs[r].i + 1 < Info(r).totalChunks
                             THEN "get" ELSE "put"]
               /\ out' = NoOut
               /\ UNCHANGED multipartUploads
          ELSE /\ out' = RespOf(r, 500, "get")
               /\ reqs' = [reqs EXCEPT ![r] = Idle]
               /\ multipartUploads' = AfterFailure(reqs[r].uploadId)
     /\ UNCHANGED <<world, impl, now, nextId, heap, store, dead>>

\* write the merged bytes under objectName
CompletePut(r) ==
  /\ reqs[r].kind = "complete" /\ reqs[r].pc = "put"
  /\ \E ok \in BOOLEAN :
       IF ok
       THEN /\ store' = PutObject(Info(r).objectName, Concat(reqs[r].chunks))
            /\ reqs' = [reqs EXCEPT ![r].pc = "remove", ![r].i = 0,
                                    ![r].chunks = <<>>, ![r].wrote = TRUE]
            /\ out' = NoOut
            /\ UNCHANGED multipartUploads
       ELSE /\ out' = RespOf(r, 500, "put")
            /\ reqs' = [reqs EXCEPT ![r] = Idle]
            /\ multipartUploads' = AfterFailure(reqs[r].uploadId)
            /\ UNCHANGED store
  /\ UNCHANGED <<world, impl, now, nextId, heap, dead>>

\* delete part i after the merge; a failure is logged
CompleteRemove(r) ==
  LET key == PartKey(Info(r).objectName, reqs[r].i)
  IN /\ reqs[r].kind = "complete" /\ reqs[r].pc = "remove"
     /\ \E ok \in BOOLEAN :
          /\ store' = IF ok THEN RemoveObject(key) ELSE store
          /\ reqs' = [reqs EXCEPT
                ![r].i = @ + 1,
                ![r].quiet = @ /\ ok,
                ![r].clean = @ /\ ok,
                ![r].wrote = @ \/ ok,
                ![r].pc = IF reqs[r].i + 1 < Info(r).totalChunks
                          THEN "remove" ELSE "finish"]
     /\ out' = NoOut
     /\ UNCHANGED <<world, impl, now, nextId, heap, multipartUploads, dead>>

\* one chunk: copy part 0 to objectName
CompleteCopy(r) ==
  LET key == PartKey(Info(r).objectName, 0)
  IN /\ reqs[r].kind = "complete" /\ reqs[r].pc = "copy"
     /\ \E ok \in BOOLEAN :
          IF ok /\ Exists(key)
          THEN /\ store' = PutObject(Info(r).objectName, store[key])
               /\ reqs' = [reqs EXCEPT ![r].pc = "removeSole", ![r].wrote = TRUE]
               /\ out' = NoOut
               /\ UNCHANGED multipartUploads
          ELSE /\ out' = RespOf(r, 500, "copy")
               /\ reqs' = [reqs EXCEPT ![r] = Idle]
               /\ multipartUploads' = AfterFailure(reqs[r].uploadId)
               /\ UNCHANGED store
     /\ UNCHANGED <<world, impl, now, nextId, heap, dead>>

\* what a failed delete of the copied part does to the request:
\* server.js lets it reach the catch, main.go logs it
SoleRemoveFailureAborts == impl = "node"

\* one chunk: delete part 0 after the copy
CompleteRemoveSole(r) ==
  LET key == PartKey(Info(r).objectName, 0)
  IN /\ reqs[r].kind = "complete" /\ reqs[r].pc = "removeSole"
     /\ \E ok \in BOOLEAN :
          IF ok
          THEN /\ store' = RemoveObject(key)
               /\ reqs' = [reqs EXCEPT ![r].pc = "finish"]
               /\ out' = NoOut
          ELSE IF SoleRemoveFailureAborts
          THEN /\ out' = RespOf(r, 500, "remove")
               /\ reqs' = [reqs EXCEPT ![r] = Idle]
               /\ UNCHANGED store
          ELSE /\ reqs' = [reqs EXCEPT ![r].pc = "finish", ![r].quiet = FALSE,
                                       ![r].clean = FALSE]
               /\ out' = NoOut
               /\ UNCHANGED store
     /\ UNCHANGED <<world, impl, now, nextId, heap, multipartUploads, dead>>

\* a terminal request that forgets to delete the registry entry
RetireNothing(uploadId) == multipartUploads

\* multipartUploads.delete(uploadId) / delete(multipartUploads, uploadID)
Retire(uploadId) == multipartUploads \ {uploadId}

\* retire the session, answer with the names
CompleteFinish(r) ==
  LET u == reqs[r].uploadId
  IN /\ reqs[r].kind = "complete" /\ reqs[r].pc = "finish"
     /\ multipartUploads' = Retire(u)
     /\ dead' = dead \cup {u}
     /\ out' = [RespOf(r, 200, "") EXCEPT
                  !.objectName = heap[u].objectName,
                  !.fileName = heap[u].fileName]
     /\ reqs' = [reqs EXCEPT ![r] = Idle]
     /\ UNCHANGED <<world, impl, now, nextId, heap, store>>

\* --------------------------------------------- DELETE /api/upload/:uploadId
\* session lookup; with no part to delete the handler never yields
CancelLookup(r) ==
  \E u \in UploadIds :
    /\ Free(r)
    /\ IF u \notin multipartUploads
       THEN /\ out' = NotFound("cancel", u)
            /\ UNCHANGED <<reqs, multipartUploads, dead>>
       ELSE IF impl = "node" /\ heap[u].totalChunks < 1
       THEN /\ multipartUploads' = Retire(u)
            /\ dead' = dead \cup {u}
            /\ out' = [Resp("cancel", u, 200, "") EXCEPT !.quiet = ~Busy(u)]
            /\ UNCHANGED reqs
       ELSE /\ reqs' = Enter(r, NewReq("cancel",
                         IF heap[u].totalChunks < 1 THEN "finish" ELSE "remove", u))
            /\ out' = NoOut
            /\ UNCHANGED <<multipartUploads, dead>>
    /\ UNCHANGED <<world, impl, now, nextId, heap, store>>

\* a cancel that gives up when a part cannot be deleted
CancelRemoveFailureThrows == TRUE

\* what a failed delete of a part does to a cancel request: it is caught
\* and logged in both servers
CancelRemoveFailureAborts == FALSE

\* delete part i; a failure is logged
CancelRemove(r) ==
  LET key == PartKey(Info(r).objectName, reqs[r].i)
  IN /\ reqs[r].kind = "cancel" /\ reqs[r].pc = "remove"
     /\ \E ok \in BOOLEAN :
          IF ~ok /\ CancelRemoveFailureAborts
          THEN /\ out' = RespOf(r, 500, "remove")
               /\ reqs' = [reqs EXCEPT ![r] = Idle]
               /\ UNCHANGED store
          ELSE /\ store' = IF ok THEN RemoveObject(key) ELSE store
               /\ reqs' = [reqs EXCEPT
                     ![r].i = @ + 1,
                     ![r].quiet = @ /\ ok,
                     ![r].clean = @ /\ ok,
                     ![r].wrote = @ \/ ok,
                     ![r].pc = IF reqs[r].i + 1 < Info(r).totalChunks
                               THEN "remove" ELSE "finish"]
               /\ out' = NoOut
     /\ UNCHANGED <<world, impl, now, nextId, heap, multipartUploads, dead>>

\* retire the session, answer success
CancelFinish(r) ==
  LET u == reqs[r].uploadId
  IN /\ reqs[r].kind = "cancel" /\ reqs[r].pc = "finish"
     /\ multipartUploads' = Retire(u)
     /\ dead' = dead \cup {u}
     /\ out' = RespOf(r, 200, "")
     /\ reqs' = [reqs EXCEPT ![r] = Idle]
     /\ UNCHANGED <<world, impl, now, nextId, heap, store>>

\* ----------------------------------------- GET /api/upload/:uploadId/status
GetUploadStatus ==
  \E u \in UploadIds :
    /\ out' = IF u \notin multipartUploads
              THEN NotFound("status", u)
              ELSE [Resp("status", u, 200, "") EXCEPT
                      !.late = u \in dead,
                      !.uploaded = Cardinality(heap[u].uploadedChunks),
                      !.total = heap[u].totalChunks,
                      !.fileName = heap[u].fileName]
    /\ UNCHANGED <<world, impl, now, nextId, heap, multipartUploads, store, reqs, dead>>

\* ------------------------------------------------- POST /api/upload/single
UploadSingle ==
  \E fileName \in world.names, ok \in BOOLEAN :
    /\ IF ok
       THEN /\ store' = PutObject(ObjectName(now, fileName), SingleBytes)
            /\ out' = [Resp("single", 0, 200, "") EXCEPT
                         !.objectName = ObjectName(now, fileName),
                         !.fileName = fileName]
       ELSE /\ out' = Resp("single", 0, 500, "put")
            /\ UNCHANGED store
    /\ UNCHANGED <<world, impl, now, nextId, heap, multipartUploads, reqs, dead>>

\* ---------------------------------------------------------- GET /api/files
\* main.go skips the keys that contain ".part"; server.js pushes every key
Listed(key) == IF impl = "go" THEN ~ContainsPart(key) ELSE TRUE

ListFiles ==
  /\ \E ok \in BOOLEAN :
       out' = IF ok
              THEN [Resp("list", 0, 200, "") EXCEPT
                      !.files = {k \in DOMAIN store : Listed(k)}]
              ELSE Resp("list", 0, 500, "list")
  /\ UNCHANGED <<world, impl, now, nextId, heap, multipartUploads, store, reqs, dead>>

\* ------------------------------------------- DELETE /api/files/:objectName
DeleteFile ==
  \E objectName \in DOMAIN store, ok \in BOOLEAN :
    /\ IF ok
       THEN /\ store' = RemoveObject(objectName)
            /\ out' = [Resp("delete", 0, 200, "") EXCEPT !.objectName = objectName]
       ELSE /\ out' = [Resp("delete", 0, 500, "remove") EXCEPT
                         !.objectName = objectName]
            /\ UNCHANGED store
    /\ UNCHANGED <<world, impl, now, nextId, heap, multipartUploads, reqs, dead>>

\* the session protocol and the catalog
Next ==
  \/ Tick
  \/ InitMultipartUpload
  \/ GetUploadStatus
  \/ ListFiles
  \/ DeleteFile
  \/ \E r \in Slots : ChunkLookup(r)
  \/ \E r \in Slots : ChunkPut(r)
  \/ \E r \in Slots : ChunkAdd(r)
  \/ \E r \in Slots : CompleteLookup(r)
  \/ \E r \in Slots : CompleteCheck(r)
  \/ \E r \in Slots : CompleteGet(r)
  \/ \E r \in Slots : CompletePut(r)
  \/ \E r \in Slots : CompleteRemove(r)
  \/ \E r \in Slots : CompleteCopy(r)
  \/ \E r \in Slots : CompleteRemoveSole(r)
  \/ \E r \in Slots : CompleteFinish(r)
  \/ \E r \in Slots : CancelLookup(r)
  \/ \E r \in Slots : CancelRemove(r)
  \/ \E r \in Slots : CancelFinish(r)

Spec == Init /\ [][Next]_vars

\* one session, with the single-shot upload
NextAll == Next \/ UploadSingle

SpecAll == InitAll /\ [][NextAll]_vars

SpecSized == InitSized /\ [][Next]_vars

SpecTwice == InitTwice /\ [][Next]_vars


\* ------------------------------------------------------------ properties
SessionOps == {"status", "chunk", "complete", "cancel"}
MergeErrors == {"get", "copy", "put"}
TerminalWork == {"get", "put", "remove", "copy", "removeSole", "finish"}

\* the file of session u: its chunks in ascending index order
FileBytes(u) ==
  Concat([k \in 1..heap[u].totalChunks |-> FileChunk(u, k - 1)])

\* the part keys a client of session u can have written
PartKeys(u) == {PartKey(heap[u].objectName, i) : i \in ChunkIndexes}

\* C1: a complete request that finds every index 0..totalChunks-1 recorded
\* is not refused as incomplete, and when it succeeds the object under
\* objectName is the chunks' bytes in ascending index order.
C1_AllUploadedCompletes ==
  (out.op = "complete" /\ out.allIn) =>
    /\ out.err # "conflict"
    /\ out.status = 200 =>
         /\ Exists(heap[out.uploadId].objectName)
         /\ store[heap[out.uploadId].objectName] = FileBytes(out.uploadId)

\* C2: no two complete / cancel requests of one session are past the lookup
\* and the completeness check, doing their merge or delete work, together.
C2_TerminalExclusive ==
  \A r, q \in Slots :
    (/\ r # q
     /\ reqs[r].kind \in {"complete", "cancel"}
     /\ reqs[q].kind \in {"complete", "cancel"}
     /\ reqs[r].uploadId = reqs[q].uploadId
     /\ reqs[r].pc \in TerminalWork)
    => reqs[q].pc \notin TerminalWork

\* C3: a status, chunk, complete or cancel request that arrives after a
\* complete succeeded or a cancel returned for its uploadId is answered 404.
C3_DeadIsNotFound ==
  (out.op \in SessionOps /\ out.late) => out.status = 404

C3_Witness ==
  /\ out.op = "chunk" /\ out.late /\ out.status = 404
  /\ Exists(heap[out.uploadId].objectName)

\* C4: complete on a session with fewer recorded indices than totalChunks
\* answers 400 with the two counts, never reaches the merge, and leaves the
\* store, the registry and the session's uploadedChunks as they were.
C4_ConflictLeavesSession ==
  /\ [](\A r \in Slots :
          (reqs[r].kind = "complete" /\ reqs[r].pc # "check") => ~reqs[r].short)
  /\ []((out.op = "complete" /\ out.short) =>
          (out.status = 400 /\ out.err = "conflict"))
  /\ [][(out'.op = "complete" /\ out'.err = "conflict") =>
          /\ store' = store
          /\ heap' = heap
          /\ multipartUploads' = multipartUploads
          /\ out'.uploaded = Cardinality(heap[out'.uploadId].uploadedChunks)
          /\ out'.total = heap[out'.uploadId].totalChunks]_vars

C4_Witness ==
  /\ out.op = "complete" /\ out.err = "conflict" /\ out.short
  /\ out.uploaded = 1 /\ out.total = 2
  /\ out.uploadId \in multipartUploads

\* C5: when cancel of a session (with chunks) returns after running with no
\* other request of that session in flight and with every delete succeeding,
\* the session is gone and no part key of it is left in the store.
C5_CancelRemovesParts ==
  (/\ out.op = "cancel" /\ out.status = 200 /\ out.quiet
   /\ heap[out.uploadId].totalChunks >= 1)
  => /\ out.uploadId \notin multipartUploads
     /\ \A key \in PartKeys(out.uploadId) : ~Exists(key)

\* C6: uploading again an index that is recorded, with the bytes its part
\* holds, changes neither the part nor uploadedChunks, and answers the same
\* count.
C6_ReuploadIdempotent ==
  [][\A r \in Slots :
       LET u == reqs[r].uploadId
           key == PartKey(heap[u].objectName, reqs[r].chunkIndex)
       IN /\ (/\ reqs[r].kind = "chunk" /\ reqs[r].pc = "put"
              /\ reqs'[r].pc = "add"
              /\ Exists(key) /\ store[key] = reqs[r].data)
             => store' = store
          /\ (/\ reqs[r].kind = "chunk" /\ reqs[r].pc = "add"
              /\ reqs'[r].pc # "add"
              /\ reqs[r].chunkIndex \in heap[u].uploadedChunks)
             => /\ heap' = heap
                /\ out'.status = 200
                /\ out'.uploaded = Cardinality(heap[u].uploadedChunks)]_vars

C6_Witness ==
  /\ out.op = "chunk" /\ out.status = 200 /\ out.again
  /\ out.uploaded = 1
  /\ store[PartKey(heap[out.uploadId].objectName, out.chunkIndex)]
       = FileChunk(out.uploadId, out.chunkIndex)

\* C7: every index recorded in a registered session is in 0..totalChunks-1.
C7_IndexInRange ==
  \A u \in multipartUploads :
    \A i \in heap[u].uploadedChunks : 0 <= i /\ i < heap[u].totalChunks

\* C8: the list of files never holds a key of the form *.part<digits>.
C8_ListHidesParts ==
  out.op = "list" => \A key \in out.files : ~IsPartKey(key)

C10_DeleteFailureTolerated ==
  (out.op = "complete" /\ out.wrote) =>
    /\ out.status = 200
    /\ out.objectName = heap[out.uploadId].objectName
    /\ out.fileName = heap[out.uploadId].fileName
    /\ out.uploadId \notin multipartUploads

\* C11: a chunk request whose write of the part fails answers 500 having
\* written nothing, and leaves the store, the registry and the session's
\* uploadedChunks as they were; an index is recorded only by a request whose
\* write succeeded.
C11_PutFailureKeepsSession ==
  /\ [](\A r \in Slots :
          (reqs[r].kind = "chunk" /\ reqs[r].pc = "add") => reqs[r].wrote)
  /\ []((out.op = "chunk" /\ out.err = "put") =>
          (out.status = 500 /\ ~out.wrote))
  /\ [][(out'.op = "chunk" /\ out'.err = "put") =>
          /\ store' = store
          /\ heap' = heap
          /\ multipartUploads' = multipartUploads]_vars

C11_Witness ==
  /\ out.op = "chunk" /\ out.err = "put" /\ out.status = 500
  /\ out.uploadId \in multipartUploads
  /\ out.chunkIndex < heap[out.uploadId].totalChunks
  /\ out.chunkIndex \notin heap[out.uploadId].uploadedChunks
  /\ ~Exists(PartKey(heap[out.uploadId].objectName, out.chunkIndex))

\* C12: init registers a session only for a non-empty fileName and positive
\* fileSize and chunkSize; every other request is refused.
C12_InitValidates ==
  \A u \in multipartUploads :
    /\ heap[u].fileName # <<>>
    /\ heap[u].fileSize > 0
    /\ heap[u].chunkSize > 0

\* C13: every session created with positive fileSize and chunkSize has
\* totalChunks = ceil(fileSize / chunkSize), the least n with
\* n * chunkSize >= fileSize, and init answers with the stored value.
C13_TotalIsCeiling ==
  /\ \A u \in DOMAIN heap :
       (heap[u].fileSize > 0 /\ heap[u].chunkSize > 0) =>
         /\ heap[u].totalChunks * heap[u].chunkSize >= heap[u].fileSize
         /\ (heap[u].totalChunks - 1) * heap[u].chunkSize < heap[u].fileSize
  /\ (out.op = "init" /\ out.status = 200) =>
       out.total = heap[out.uploadId].totalChunks

\* C14: no objectName of a session or of a single-shot upload equals a part
\* key objectName'.part<i> of a session.
C14_NameIsNoPartKey ==
  \A v \in DOMAIN heap : \A i \in ChunkIndexes :
    /\ \A u \in DOMAIN heap :
         heap[u].objectName # PartKey(heap[v].objectName, i)
    /\ (out.op = "single" /\ out.status = 200) =>
         out.objectName # PartKey(heap[v].objectName, i)

\* the keys of session v: its parts and its final object
KeysOf(v) == PartKeys(v) \cup {heap[v].objectName}

\* C15: a step of a chunk, complete or cancel request of one session leaves
\* the uploadedChunks of every other registered session, and every key of
\* every other registered session, as they were.
C15_SessionsIndependent ==
  [][\A r \in Slots :
       (reqs[r].kind # "idle" /\ reqs'[r] # reqs[r]) =>
         \A v \in multipartUploads \ {reqs[r].uploadId} :
           /\ heap'[v].uploadedChunks = heap[v].uploadedChunks
           /\ \A key \in KeysOf(v) :
                /\ (key \in DOMAIN store') = (key \in DOMAIN store)
                /\ key \in DOMAIN store => store'[key] = store[key]]_vars

\* C16: the final object that a complete request writes is the session's
\* file, whether it is copied from the sole part (totalChunks = 1) or
\* concatenated from the parts (totalChunks > 1): the same file uploaded in
\* one chunk and in several gives the same bytes.
C16_PathsAgree ==
  [][\A r \in Slots :
       (/\ reqs[r].kind = "complete" /\ reqs[r].pc \in {"copy", "put"}
        /\ reqs'[r].wrote
        /\ heap[reqs[r].uploadId].totalChunks >= 1)
       => store'[heap[reqs[r].uploadId].objectName]
            = File(heap[reqs[r].uploadId].fileSize)]_vars

\* C17: a cancel request that finds its session registered answers 200 with
\* the session retired, whatever the recorded chunks and whether or not the
\* deletes of its parts succeed; a cancel is refused only with 404, and only
\* when the session is not registered.
C17_CancelAlwaysSucceeds ==
  /\ [](out.op = "cancel" =>
          \/ out.status = 404
          \/ out.status = 200 /\ out.uploadId \notin multipartUploads)
  /\ [][(out'.op = "cancel" /\ out'.status = 404) =>
          out'.uploadId \notin multipartUploads]_vars

C17_Witness ==
  /\ out.op = "cancel" /\ out.status = 200 /\ ~out.wrote
  /\ AllIn(out.uploadId)
  /\ Exists(PartKey(heap[out.uploadId].objectName, 0))
  /\ out.uploadId \notin multipartUploads

\* C18: the key that a catalog delete removes is never a part key of a
\* registered session.
C18_DeleteSparesParts ==
  (out.op = "delete" /\ out.status = 200) =>
    \A u \in multipartUploads : out.objectName \notin PartKeys(u)

\* C19: a complete request that has passed the completeness check found
\* every index 0..totalChunks-1 recorded.
C19_CheckFindsAll ==
  \A r \in Slots :
    (reqs[r].kind = "complete" /\ reqs[r].pc \in TerminalWork) =>
      \/ reqs[r].allIn
      \/ heap[reqs[r].uploadId].totalChunks < 1

\* C20: chunk requests of one session that run together lose nothing.  The
\* write of a part changes the store at its own part key only, where it
\* puts its own bytes; requests with distinct indices write distinct keys;
\* and the record of an index keeps every index recorded before it, by
\* whichever request, and answers 200.
C20_NoLostUpdate ==
  /\ [](\A r, q \in Slots :
          (/\ reqs[r].kind = "chunk" /\ reqs[q].kind = "chunk"
           /\ reqs[r].uploadId = reqs[q].uploadId
           /\ reqs[r].chunkIndex # reqs[q].chunkIndex)
          => PartKey(Info(r).objectName, reqs[r].chunkIndex)
               # PartKey(Info(q).objectName, reqs[q].chunkIndex))
  /\ [][\A r \in Slots :
          LET u == reqs[r].uploadId
              key == PartKey(heap[u].objectName, reqs[r].chunkIndex)
          IN /\ (/\ reqs[r].kind = "chunk" /\ reqs[r].pc = "put"
                 /\ reqs'[r].pc = "add")
                => /\ DOMAIN store' = DOMAIN store \cup {key}
                   /\ store'[key] = FileChunk(u, reqs[r].chunkIndex)
                   /\ \A k \in DOMAIN store \ {key} : store'[k] = store[k]
             /\ (/\ reqs[r].kind = "chunk" /\ reqs[r].pc = "add"
                 /\ reqs'[r].pc # "add")
                => /\ heap'[u].uploadedChunks
                        = heap[u].uploadedChunks \cup {reqs[r].chunkIndex}
                   /\ out'.status = 200
                   /\ out'.uploaded = Cardinality(heap'[u].uploadedChunks)]_vars

\* two chunk requests in flight together have both written; the first has
\* been recorded, the second is about to be
C20_Witness ==
  \E r, q \in Slots :
    /\ reqs[r].kind = "chunk" /\ reqs[r].pc = "add" /\ reqs[r].chunkIndex = 1
    /\ reqs[q].kind = "chunk" /\ reqs[q].pc = "add" /\ reqs[q].chunkIndex = 0
    /\ reqs[r].uploadId = reqs[q].uploadId
    /\ heap[reqs[r].uploadId].totalChunks = 2
    /\ store[PartKey(Info(r).objectName, 1)] = FileChunk(reqs[r].uploadId, 1)
    /\ store[PartKey(Info(r).objectName, 0)] = FileChunk(reqs[r].uploadId, 0)
    /\ FileChunk(reqs[r].uploadId, 0) # FileChunk(reqs[r].uploadId, 1)

\* C21: while a session stays registered no step removes an index from its
\* uploadedChunks: not a chunk request (failed or not), not a failed
\* complete, not status, list or a catalog delete.
C21_UploadedOnlyGrows ==
  [][\A u \in multipartUploads :
       u \in multipartUploads' =>
         heap[u].uploadedChunks \subseteq heap'[u].uploadedChunks]_vars

\* a second upload of a recorded index has failed, the index is still there
C21_Witness ==
  /\ out.op = "chunk" /\ out.err = "put"
  /\ out.uploadId \in multipartUploads
  /\ out.chunkIndex \in heap[out.uploadId].uploadedChunks

\* C22: two registered sessions never have the same objectName.
C22_ObjectNamesDistinct ==
  \A u, v \in multipartUploads :
    u # v => heap[u].objectName # heap[v].objectName

\* C23: a complete or cancel request answers success only if no complete or
\* cancel request of its uploadId has answered success before.
C23_OneTerminalSuccess ==
  [][(out'.op \in {"complete", "cancel"} /\ out'.status = 200) =>
       out'.uploadId \notin dead]_vars

\* C24: when a cancel or complete request whose deletes all succeeded has
\* answered success, the session is gone and no request of it is in flight,
\* no part objectName.part<i>, i in 0..totalChunks-1, of the session is
\* left in the store.
C24_NoOrphanPart ==
  (/\ out.op \in {"cancel", "complete"} /\ out.status = 200 /\ out.clean
   /\ out.uploadId \notin multipartUploads
   /\ ~Busy(out.uploadId))
  => \A i \in 0..(heap[out.uploadId].totalChunks - 1) :
       ~Exists(PartKey(heap[out.uploadId].objectName, i))

\* C25: with no complete or cancel request of a registered session in
\* flight, every index in its uploadedChunks has its part in the store.
C25_RecordedPartsPresent ==
  \A u \in multipartUploads :
    (\A r \in Slots :
       ~(reqs[r].uploadId = u /\ reqs[r].kind \in {"complete", "cancel"}))
    => \A i \in heap[u].uploadedChunks :
         Exists(PartKey(heap[u].objectName, i))

\* C26: a registered session with every index 0..totalChunks-1 recorded can
\* be completed: the completeness check lets it through.  uploadedChunks
\* only grows, so a session that the check refuses in such a state is
\* refused in every later state, and no complete request of it ever
\* returns success.
C26_AllInCanComplete ==
  \A u \in multipartUploads :
    AllIn(u) =>
      ~Incomplete(Cardinality(heap[u].uploadedChunks), heap[u].totalChunks)

\* C27: the uploadedChunks count that a status or chunk response reports
\* for a session with chunks (totalChunks >= 1) is between 0 and the
\* totalChunks it reports.
C27_CountWithinTotal ==
  (out.op \in {"status", "chunk"} /\ out.status = 200 /\ out.total >= 1) =>
    (0 <= out.uploaded /\ out.uploaded <= out.total)

\* C28: a status, list or single-shot upload request changes no session and
\* not the registry; status and list change no key of the store; a
\* single-shot upload writes one key, its objectName, and that key is not a
\* part key of a registered session.
C28_ReadersAndSingleFrame ==
  [][/\ out'.op \in {"status", "list", "single"} =>
          (heap' = heap /\ multipartUploads' = multipartUploads)
     /\ out'.op \in {"status", "list"} => store' = store
     /\ (out'.op = "single" /\ out'.status = 200) =>
          /\ DOMAIN store' = DOMAIN store \cup {out'.objectName}
          /\ \A k \in DOMAIN store \ {out'.objectName} : store'[k] = store[k]
          /\ \A u \in multipartUploads : out'.objectName \notin PartKeys(u)]_vars

\* C29: a chunk request whose uploadId is not registered answers 404 in the
\* step of its lookup and goes no further: it leaves the store, every
\* session and the registry as they were and makes no storage call
\* afterwards, because only a request that found its session proceeds.
C29_UnknownChunkTouchesNothing ==
  /\ [][\A r \in Slots :
          (reqs[r].kind # "chunk" /\ reqs'[r].kind = "chunk") =>
            reqs'[r].uploadId \in multipartUploads]_vars
  /\ [][(out'.op = "chunk" /\ out'.status = 404) =>
          /\ out'.uploadId \notin multipartUploads
          /\ store' = store
          /\ heap' = heap
          /\ multipartUploads' = multipartUploads
          /\ reqs' = reqs]_vars

\* refused: a chunk for an uploadId never issued, beside a live session
C29_Witness ==
  /\ out.op = "chunk" /\ out.status = 404
  /\ out.uploadId >= nextId
  /\ multipartUploads # {}
  /\ \E u \in multipartUploads : Exists(PartKey(heap[u].objectName, 0))

====
